---- MODULE Spec2Model ----
(***************************************************************************)
(* Model of the status-polling pipeline of src/src/App.tsx: the React      *)
(* state of App, the two asynchronous operations fetchData and             *)
(* checkWorkshopWebsite, the mount effect with its 60 s interval, the two  *)
(* manual buttons and the view selection.                                  *)
(*                                                                         *)
(* Time is in milliseconds.  A request in flight is a record in `fetches`  *)
(* or `probes`; the network's answer is an input of the action that runs   *)
(* the continuation after the await.  The two awaits of fetchData (fetch,  *)
(* response.json) are taken in one step: the continuation between them     *)
(* writes no state when the response is ok.                                *)
(***************************************************************************)
EXTENDS Integers, Sequences, FiniteSets, TLC

VARIABLES services, loading, error, lastUpdate, workshopStatus,
          view, phase, now, nextTick, fetches, probes, nextId,
          lastSettled, servicesCycle, probeCycle, lastProbe, call

vars == <<services, loading, error, lastUpdate, workshopStatus,
          view, phase, now, nextTick, fetches, probes, nextId,
          lastSettled, servicesCycle, probeCycle, lastProbe, call>>

\* ---------------------------------------------------------------- bounds
MaxTime == 90000
TimeStep == 30000
MaxFeedLen == 2
MaxFetches == 3
FmtSlack == 1
MaxRenderLag == 1

\* ------------------------------------------------------------- constants
Interval == 60000
Null == "null"
ErrorMessage == "Unable to fetch service status. Please try again later."

targetServices ==
  << [name |-> "Main Page", url |-> "https://www.bohemia.net"],
     [name |-> "Arma Reforger Game API", url |-> ""],
     [name |-> "Arma Reforger Workshop API",
      url |-> "https://reforger.armaplatform.com/workshop"] >>

\* targetServices.map(s => s.name)
targetNames == [i \in DOMAIN targetServices |-> targetServices[i].name]

\* Array.prototype.includes
includes(arr, x) == \E i \in DOMAIN arr : arr[i] = x

\* ------------------------------------------------------------ the inputs
\* Names a raw feed may carry: the three allow-listed ones and one other.
FeedNames == {targetNames[i] : i \in DOMAIN targetNames} \cup {"Arma 3 Steam Workshop"}

\* A service record of the feed (name and the online flag; the other
\* fields ride along unchanged in the same way).
Service == [name : FeedNames, online : BOOLEAN]

SeqsUpTo(S, n) == UNION {[1..k -> S] : k \in 0..n}

Feeds == SeqsUpTo(Service, MaxFeedLen)

\* What the relay can answer to the primary request.
\*   net:  "rejected" (fetch throws), "status500", "status200"
\*   body: "notjson" (envelope is not JSON), "nocontents" (no contents
\*         field), "badjson" (contents is not valid JSON), "nonarray"
\*         (contents parses to a non-array), "array" (contents parses to
\*         `data`)
Resp(n, b, d) == [net |-> n, body |-> b, data |-> d]
NoResp == Resp("none", "none", <<>>)
FailureResponses ==
  {Resp("rejected", "none", <<>>), Resp("status500", "none", <<>>)}
  \cup {Resp("status200", b, <<>>) : b \in {"notjson", "nocontents", "badjson", "nonarray"}}

\* Every feed up to the length bound (used where the filter is examined).
FeedResponses ==
  FailureResponses \cup {Resp("status200", "array", d) : d \in Feeds}

\* A few feeds (used where the scheduling is examined): empty, one
\* allow-listed service, a foreign service before an allow-listed one, two
\* allow-listed services in the reverse of the allow-list's order.
SampleFeeds ==
  { <<>>,
    << [name |-> "Main Page", online |-> TRUE] >>,
    << [name |-> "Arma 3 Steam Workshop", online |-> TRUE],
       [name |-> "Arma Reforger Workshop API", online |-> FALSE] >>,
    << [name |-> "Arma Reforger Workshop API", online |-> TRUE],
       [name |-> "Main Page", online |-> FALSE] >> }

Responses ==
  FailureResponses \cup {Resp("status200", "array", d) : d \in SampleFeeds}

\* What the relay can answer to the probe request.
ProbeResponses == {"rejected", "status500", "status200"}

Min(a, b) == IF a < b THEN a ELSE b

\* ------------------------------------------------------------- rendering
\* (mutant) a degraded content view: an error hides the content only while
\* nothing has been fetched.
Render_degraded(l, e) ==
  IF l THEN "loading" ELSE "content"

\* The view selection of App: if (loading) ... if (error) ... content.
Render(l, e) ==
  IF l THEN "loading"
  ELSE IF e # Null /\ e # "" THEN "error"
  ELSE "content"

\* What is on screen: nothing once the component is torn down.
Shown(p, l, e) == IF p = "unmounted" THEN "none" ELSE Render(l, e)

\* A call of a formatter: the function, its argument (a timestamp in ms or
\* a number), whether the argument is a valid date, the clock readings it
\* took, and what it returned (a string, and for the freshness test a flag).
NoCall == [fn |-> "none", arg |-> 0, valid |-> TRUE, at |-> 0, flagAt |-> 0,
           out |-> "", flag |-> FALSE]

\* ------------------------------------------------------------------ Init
Init ==
  /\ services = <<>>
  /\ loading = TRUE
  /\ error = Null
  /\ now = 0
  /\ lastUpdate = 0
  /\ workshopStatus = [online |-> FALSE, latency |-> 0]
  /\ phase = "init"
  /\ view = "loading"
  /\ nextTick = 0
  /\ fetches = {}
  /\ probes = {}
  /\ nextId = 1
  /\ lastSettled = [id |-> 0, resp |-> NoResp]
  /\ servicesCycle = 0
  /\ probeCycle = 0
  /\ lastProbe = [id |-> 0, resp |-> "none"]
  /\ call = NoCall

\* ---------------------------------------------------------- fetchData
\* (mutant) the result is built by walking the allow-list, so it comes out
\* in the allow-list's order.
filteredServices_specOrder(data) ==
  LET pick(i) == SelectSeq(data, LAMBDA service : service.name = targetNames[i])
  IN  pick(1) \o pick(2) \o pick(3)

\* data.filter(service => targetServices.map(s => s.name).includes(service.name))
filteredServices(data) ==
  SelectSeq(data, LAMBDA service : includes(targetNames, service.name))

\* (mutant) the response.ok check is missing.
Throws_noStatusCheck(resp) ==
  \/ resp.net = "rejected"
  \/ resp.body \in {"notjson", "nocontents", "badjson", "nonarray"}

\* The try block reaches the catch block: fetch rejects, response.ok is
\* false, response.json() rejects, JSON.parse(result.contents) throws, or
\* data.filter is not a function.
Throws(resp) ==
  \/ resp.net = "rejected"
  \/ resp.net # "status200"
  \/ resp.body = "notjson"
  \/ resp.body \in {"nocontents", "badjson"}
  \/ resp.body = "nonarray"

\* The call of fetchData up to its first await: the request is in flight.
StartFetch(id, origin) == fetches \cup {[id |-> id, origin |-> origin]}

\* (mutant) the new entries are appended to the stored list.
FetchTry_merge(f, resp) ==
  /\ services' = services \o filteredServices(resp.data)
  /\ lastUpdate' = now
  /\ error' = Null
  /\ servicesCycle' = f.id

\* The rest of the try block once the feed is parsed: setServices,
\* setLastUpdate(new Date()), setError(null).
FetchTry(f, resp) ==
  /\ services' = filteredServices(resp.data)
  /\ lastUpdate' = now
  /\ error' = Null
  /\ servicesCycle' = f.id

\* (mutant) the catch block also empties the list and restamps lastUpdate.
FetchCatch_clears ==
  /\ error' = ErrorMessage
  /\ services' = <<>>
  /\ lastUpdate' = now
  /\ UNCHANGED servicesCycle

\* The catch block: setError(<fixed message>).
FetchCatch ==
  /\ error' = ErrorMessage
  /\ UNCHANGED <<services, lastUpdate, servicesCycle>>

\* (mutant) the finally block is missing: loading is left as it is.
FetchSettle_noFinally(f, resp) ==
  /\ f \in fetches
  /\ fetches' = fetches \ {f}
  /\ lastSettled' = [id |-> f.id, resp |-> resp]
  /\ IF Throws(resp) THEN FetchCatch ELSE FetchTry(f, resp)
  /\ loading' = loading
  /\ view' = Shown(phase, loading', error')
  /\ UNCHANGED <<call, lastProbe, workshopStatus, phase, now, nextTick, probes, nextId, probeCycle>>

\* The continuation of fetchData once the relay has answered `resp`:
\* try or catch, then the finally block's setLoading(false).
FetchSettle(f, resp) ==
  /\ f \in fetches
  /\ fetches' = fetches \ {f}
  /\ lastSettled' = [id |-> f.id, resp |-> resp]
  /\ IF Throws(resp) THEN FetchCatch ELSE FetchTry(f, resp)
  /\ loading' = FALSE
  /\ view' = Shown(phase, loading', error')
  /\ UNCHANGED <<call, lastProbe, workshopStatus, phase, now, nextTick, probes, nextId, probeCycle>>

\* ------------------------------------------------- checkWorkshopWebsite
StartProbe(id) == probes \cup {[id |-> id, startTime |-> now]}

\* (mutant) a rejected probe raises the page-level error.
ProbeSettle_raisesError(p, r) ==
  /\ p \in probes
  /\ probes' = probes \ {p}
  /\ IF r = "rejected"
       THEN /\ workshopStatus' = [online |-> FALSE, latency |-> 0]
            /\ error' = ErrorMessage
       ELSE /\ workshopStatus' = [online |-> (r = "status200"),
                                  latency |-> now - p.startTime]
            /\ UNCHANGED error
  /\ probeCycle' = p.id
  /\ lastProbe' = [id |-> p.id, resp |-> r]
  /\ view' = Shown(phase, loading, error')
  /\ UNCHANGED <<call, services, loading, lastUpdate, phase, now, nextTick,
                 fetches, nextId, lastSettled, servicesCycle>>

\* (mutant) a non-success answer is reported like a thrown request.
ProbeSettle_zeroOnError(p, r) ==
  /\ p \in probes
  /\ probes' = probes \ {p}
  /\ IF r # "status200"
       THEN workshopStatus' = [online |-> FALSE, latency |-> 0]
       ELSE workshopStatus' = [online |-> TRUE, latency |-> now - p.startTime]
  /\ probeCycle' = p.id
  /\ lastProbe' = [id |-> p.id, resp |-> r]
  /\ view' = Shown(phase, loading, error)
  /\ UNCHANGED <<call, services, loading, error, lastUpdate, phase, now, nextTick,
                 fetches, nextId, lastSettled, servicesCycle>>

\* The continuation of checkWorkshopWebsite once the relay has answered r
\* (endTime = Date.now() is the time of this step).
ProbeSettle(p, r) ==
  /\ p \in probes
  /\ probes' = probes \ {p}
  /\ IF r = "rejected"
       THEN workshopStatus' = [online |-> FALSE, latency |-> 0]
       ELSE workshopStatus' = [online |-> (r = "status200"),
                               latency |-> now - p.startTime]
  /\ probeCycle' = p.id
  /\ lastProbe' = [id |-> p.id, resp |-> r]
  /\ view' = Shown(phase, loading, error)
  /\ UNCHANGED <<call, services, loading, error, lastUpdate, phase, now, nextTick,
                 fetches, nextId, lastSettled, servicesCycle>>

\* ------------------------------------------------------------ useEffect
Mount ==
  /\ phase = "init"
  /\ nextId <= MaxFetches
  /\ fetches' = StartFetch(nextId, "initial")
  /\ probes' = StartProbe(nextId)
  /\ nextId' = nextId + 1
  /\ nextTick' = now + Interval
  /\ phase' = "mounted"
  /\ view' = Shown(phase', loading, error)
  /\ UNCHANGED <<call, lastProbe, services, loading, error, lastUpdate, workshopStatus, now,
                 lastSettled, servicesCycle, probeCycle>>

\* (mutant) the callback forgets fetchData.
TimerTick_probeOnly ==
  /\ phase = "mounted"
  /\ now = nextTick
  /\ nextId <= MaxFetches
  /\ probes' = StartProbe(nextId)
  /\ nextId' = nextId + 1
  /\ nextTick' = nextTick + Interval
  /\ view' = Shown(phase, loading, error)
  /\ UNCHANGED <<call, lastProbe, services, loading, error, lastUpdate, workshopStatus, phase,
                 now, fetches, lastSettled, servicesCycle, probeCycle>>

\* (mutant) the interval is never cleared: the callback still runs after
\* teardown.
TimerTick_ignoresTeardown ==
  /\ phase \in {"mounted", "unmounted"}
  /\ now = nextTick
  /\ nextId <= MaxFetches
  /\ fetches' = StartFetch(nextId, "timer")
  /\ probes' = StartProbe(nextId)
  /\ nextId' = nextId + 1
  /\ nextTick' = nextTick + Interval
  /\ view' = Shown(phase, loading, error)
  /\ UNCHANGED <<call, lastProbe, services, loading, error, lastUpdate, workshopStatus, phase,
                 now, lastSettled, servicesCycle, probeCycle>>

\* The setInterval callback, run every Interval ms.
TimerTick ==
  /\ phase = "mounted"
  /\ now = nextTick
  /\ nextId <= MaxFetches
  /\ fetches' = StartFetch(nextId, "timer")
  /\ probes' = StartProbe(nextId)
  /\ nextId' = nextId + 1
  /\ nextTick' = nextTick + Interval
  /\ view' = Shown(phase, loading, error)
  /\ UNCHANGED <<call, lastProbe, services, loading, error, lastUpdate, workshopStatus, phase,
                 now, lastSettled, servicesCycle, probeCycle>>

\* The cleanup of the effect: clearInterval(interval).
Teardown ==
  /\ phase = "mounted"
  /\ phase' = "unmounted"
  /\ view' = Shown(phase', loading, error)
  /\ UNCHANGED <<call, lastProbe, services, loading, error, lastUpdate, workshopStatus, now,
                 nextTick, fetches, probes, nextId, lastSettled,
                 servicesCycle, probeCycle>>

\* -------------------------------------------------------------- buttons
\* (mutant) the button forgets setError(null).
Retry_keepsError ==
  /\ phase = "mounted"
  /\ view = "error"
  /\ nextId <= MaxFetches
  /\ loading' = TRUE
  /\ fetches' = StartFetch(nextId, "retry")
  /\ nextId' = nextId + 1
  /\ view' = Shown(phase, loading', error)
  /\ UNCHANGED <<call, lastProbe, services, error, lastUpdate, workshopStatus, phase, now,
                 nextTick, probes, lastSettled, servicesCycle, probeCycle>>

\* (mutant) the button forgets fetchData().
Retry_noFetch ==
  /\ phase = "mounted"
  /\ view = "error"
  /\ nextId <= MaxFetches
  /\ loading' = TRUE
  /\ error' = Null
  /\ view' = Shown(phase, loading', error')
  /\ UNCHANGED <<call, lastProbe, services, lastUpdate, workshopStatus, phase, now, nextTick,
                 fetches, nextId, probes, lastSettled, servicesCycle, probeCycle>>

\* onClick of the Retry button of the error view.
Retry ==
  /\ phase = "mounted"
  /\ view = "error"
  /\ nextId <= MaxFetches
  /\ loading' = TRUE
  /\ error' = Null
  /\ fetches' = StartFetch(nextId, "retry")
  /\ nextId' = nextId + 1
  /\ view' = Shown(phase, loading', error')
  /\ UNCHANGED <<call, lastProbe, services, lastUpdate, workshopStatus, phase, now, nextTick,
                 probes, lastSettled, servicesCycle, probeCycle>>

\* (mutant) the button forgets setLoading(true).
RefreshNow_noSpinner ==
  /\ phase = "mounted"
  /\ view = "content"
  /\ nextId <= MaxFetches
  /\ fetches' = StartFetch(nextId, "refresh")
  /\ nextId' = nextId + 1
  /\ view' = Shown(phase, loading, error)
  /\ UNCHANGED <<call, lastProbe, services, loading, error, lastUpdate, workshopStatus, phase,
                 now, nextTick, probes, lastSettled, servicesCycle, probeCycle>>

\* onClick of the "Refresh now" button of the content view.
RefreshNow ==
  /\ phase = "mounted"
  /\ view = "content"
  /\ nextId <= MaxFetches
  /\ loading' = TRUE
  /\ fetches' = StartFetch(nextId, "refresh")
  /\ nextId' = nextId + 1
  /\ view' = Shown(phase, loading', error)
  /\ UNCHANGED <<call, lastProbe, services, error, lastUpdate, workshopStatus, phase, now,
                 nextTick, probes, lastSettled, servicesCycle, probeCycle>>

\* ----------------------------------------------------------------- time
\* The clock moves on; a due interval callback runs before time passes it.
Advance ==
  /\ phase # "init"
  /\ now < MaxTime
  /\ phase = "mounted" => now < nextTick
  /\ now' = IF phase = "mounted"
              THEN Min(Min(now + TimeStep, nextTick), MaxTime)
              ELSE Min(now + TimeStep, MaxTime)
  /\ UNCHANGED <<call, lastProbe, services, loading, error, lastUpdate, workshopStatus, view,
                 phase, nextTick, fetches, probes, nextId, lastSettled,
                 servicesCycle, probeCycle>>

Next ==
  \/ Mount
  \/ TimerTick
  \/ Teardown
  \/ Retry
  \/ RefreshNow
  \/ Advance
  \/ \E f \in fetches : \E resp \in Responses : FetchSettle(f, resp)
  \/ \E p \in probes : \E r \in ProbeResponses : ProbeSettle(p, r)

Spec == Init /\ [][Next]_vars

\* The same program with the clock standing still and the relay free to
\* answer with every feed up to the length bound.
FeedNext ==
  \/ Mount
  \/ Retry
  \/ RefreshNow
  \/ \E f \in fetches : \E resp \in FeedResponses : FetchSettle(f, resp)
  \/ \E p \in probes : \E r \in ProbeResponses : ProbeSettle(p, r)

FeedSpec == Init /\ [][FeedNext]_vars

\* The program with what its scheduling guarantees: the mount effect runs
\* after the first render, and a primary fetch in flight is answered (or
\* rejected) in the end.
LiveSpec ==
  /\ Spec
  /\ WF_vars(Mount)
  /\ WF_vars(\E f \in fetches : \E resp \in Responses : FetchSettle(f, resp))

\* ------------------------------------------------------------ formatters
\* Date.prototype.toLocaleString: an absolute date/time string, a function
\* of the date alone ("Invalid Date" for an invalid one).
toLocaleString(valid, date) ==
  IF valid THEN "date " \o ToString(date) ELSE "Invalid Date"

\* (mutant) the first bucket takes the boundary in.
formatTimeAgo_inclusive(date, clock) ==
  LET seconds == (clock - date) \div 1000 IN
  IF seconds <= 5 THEN "Just now"
  ELSE IF seconds < 60 THEN ToString(seconds) \o " seconds ago"
  ELSE IF seconds < 3600 THEN
    LET minutes == seconds \div 60 IN
    ToString(minutes) \o " " \o (IF minutes = 1 THEN "minute" ELSE "minutes") \o " ago"
  ELSE IF seconds < 86400 THEN
    LET hours == seconds \div 3600 IN
    ToString(hours) \o " " \o (IF hours = 1 THEN "hour" ELSE "hours") \o " ago"
  ELSE toLocaleString(TRUE, date)

\* (mutant) Math.round in place of Math.floor.
formatTimeAgo_rounds(date, clock) ==
  LET seconds == (clock - date + 500) \div 1000 IN
  IF seconds < 5 THEN "Just now"
  ELSE IF seconds < 60 THEN ToString(seconds) \o " seconds ago"
  ELSE IF seconds < 3600 THEN
    LET minutes == seconds \div 60 IN
    ToString(minutes) \o " " \o (IF minutes = 1 THEN "minute" ELSE "minutes") \o " ago"
  ELSE IF seconds < 86400 THEN
    LET hours == seconds \div 3600 IN
    ToString(hours) \o " " \o (IF hours = 1 THEN "hour" ELSE "hours") \o " ago"
  ELSE toLocaleString(TRUE, date)

\* UpdatedTimestamp.formatTimeAgo; clock is its new Date().getTime().
\* Math.floor is \div, which rounds towards minus infinity.
formatTimeAgo(date, clock) ==
  LET seconds == (clock - date) \div 1000 IN
  IF seconds < 5 THEN "Just now"
  ELSE IF seconds < 60 THEN ToString(seconds) \o " seconds ago"
  ELSE IF seconds < 3600 THEN
    LET minutes == seconds \div 60 IN
    ToString(minutes) \o " " \o (IF minutes = 1 THEN "minute" ELSE "minutes") \o " ago"
  ELSE IF seconds < 86400 THEN
    LET hours == seconds \div 3600 IN
    ToString(hours) \o " " \o (IF hours = 1 THEN "hour" ELSE "hours") \o " ago"
  ELSE toLocaleString(TRUE, date)

\* (mutant) the boundary counts as recent.
isRecent_inclusive(date, clock) == (clock - date) <= 5000

\* (mutant) the elapsed time is rounded to whole seconds before the test.
isRecent_rounded(date, clock) == ((clock - date + 500) \div 1000) < 5

\* UpdatedTimestamp.isRecent; clock is its new Date().getTime().
isRecent(date, clock) == (clock - date) < 5000

\* (mutant) the first bucket takes the boundary in.
formatDate_inclusive(valid, date, clock) ==
  IF ~valid THEN toLocaleString(valid, date)
  ELSE
    LET timeAgo == (clock - date) \div 1000 IN
    IF timeAgo <= 60 THEN "Just now"
    ELSE IF timeAgo < 3600 THEN ToString(timeAgo \div 60) \o "m ago"
    ELSE IF timeAgo < 86400 THEN ToString(timeAgo \div 3600) \o "h ago"
    ELSE toLocaleString(valid, date)

\* App.formatDate.  new Date(dateString) is the pair (valid, date): the
\* parsed time in ms, or an invalid date whose getTime() is NaN; every
\* comparison with NaN is false, so the last return is taken.
formatDate(valid, date, clock) ==
  IF ~valid THEN toLocaleString(valid, date)
  ELSE
    LET timeAgo == (clock - date) \div 1000 IN
    IF timeAgo < 60 THEN "Just now"
    ELSE IF timeAgo < 3600 THEN ToString(timeAgo \div 60) \o "m ago"
    ELSE IF timeAgo < 86400 THEN ToString(timeAgo \div 3600) \o "h ago"
    ELSE toLocaleString(valid, date)

\* (x / 1000).toFixed(2) for a non-negative integer x: the nearest
\* hundredth, printed with two decimals.  (A last digit of 5 is a tie that
\* the binary value of x / 1000 decides; the arguments drawn avoid it.)
toFixed2(x) ==
  LET h == (x + 5) \div 10
      frac == h % 100
  IN  ToString(h \div 100) \o "." \o
      (IF frac < 10 THEN "0" \o ToString(frac) ELSE ToString(frac))

\* App.formatLatency.
formatLatency(latency) == toFixed2(latency) \o "s"

\* `${service.online_24_hours.toFixed(2)}%`, the percentage given in
\* thousandths of a percent.
percentString(milliPercent) == toFixed2(milliPercent) \o "%"

\* The inputs of the formatter calls: clock readings around the bucket
\* boundaries (in seconds: 0, 5, 60, 120, 3600, 7200, 86400), timestamps
\* near the start, latencies and percentages without a rounding tie.
BoundarySeconds == {0, 5, 60, 120, 3600, 7200, 86400}
FmtClocks ==
  {(b + d) * 1000 + r : b \in BoundarySeconds, d \in (0 - FmtSlack)..FmtSlack,
                        r \in {0, 999}}
FmtDates == {0, 2000, 2001}
FmtLatencies == {0, 500, 999, 1234, 1236, 2000}
FmtPercents == {0, 99950, 99994, 100000}

\* Everything but the clock and the formatter call.
appVars == <<services, loading, error, lastUpdate, workshopStatus, view, phase,
             nextTick, fetches, probes, nextId, lastSettled, servicesCycle,
             probeCycle, lastProbe>>

\* Time passes, up to one of the sampled clock readings.
FmtAdvance ==
  /\ \E t \in FmtClocks : t > now /\ now' = t
  /\ UNCHANGED <<call, appVars>>

\* A render of UpdatedTimestamp: isRecent reads the clock first (line 54),
\* formatTimeAgo reads it again while the markup is built (line 63), up
\* to lag ms later (taken here from the sampled readings only).
RenderTimestamp(date, lag) ==
  /\ lag > 0 => now \in FmtClocks
  /\ call' = [fn |-> "UpdatedTimestamp", arg |-> date, valid |-> TRUE,
              flagAt |-> now, flag |-> isRecent(date, now),
              at |-> now + lag, out |-> formatTimeAgo(date, now + lag)]
  /\ now' = now + lag
  /\ UNCHANGED appVars

\* A call of formatDate on a last_success / last_error string.
FormatDateCall(valid, date) ==
  /\ call' = [fn |-> "formatDate", arg |-> date, valid |-> valid,
              flagAt |-> now, flag |-> FALSE,
              at |-> now, out |-> formatDate(valid, date, now)]
  /\ UNCHANGED <<now, appVars>>

\* A call of formatLatency.
FormatLatencyCall(latency) ==
  /\ call' = [fn |-> "formatLatency", arg |-> latency, valid |-> TRUE,
              flagAt |-> now, flag |-> FALSE,
              at |-> now, out |-> formatLatency(latency)]
  /\ UNCHANGED <<now, appVars>>

\* A rendering of an uptime percentage.
PercentCall(milliPercent) ==
  /\ call' = [fn |-> "percentString", arg |-> milliPercent, valid |-> TRUE,
              flagAt |-> now, flag |-> FALSE,
              at |-> now, out |-> percentString(milliPercent)]
  /\ UNCHANGED <<now, appVars>>

FmtNext ==
  \/ FmtAdvance
  \/ \E date \in FmtDates : \E lag \in 0..MaxRenderLag : RenderTimestamp(date, lag)
  \/ \E valid \in BOOLEAN : \E date \in FmtDates : FormatDateCall(valid, date)
  \/ \E latency \in FmtLatencies : FormatLatencyCall(latency)
  \/ \E p \in FmtPercents : PercentCall(p)

FmtSpec == Init /\ [][FmtNext]_vars

\* ------------------------------------------------- vocabulary of the claims
\* A step in which a primary fetch / a probe is started or settles.
FetchStartedStep == \E f \in fetches' : f \notin fetches
ProbeStartedStep == \E p \in probes' : p \notin probes
FetchSettledStep == \E f \in fetches : f \notin fetches' /\ lastSettled'.id = f.id
ProbeSettledStep == \E p \in probes : p \notin probes'

\* The relay's answer counts as a failure: transport (rejected request,
\* non-success status) or parse (no usable contents).
RespFailed(resp) == resp.net # "status200" \/ resp.body # "array"

FetchFailedStep == FetchSettledStep /\ RespFailed(lastSettled'.resp)
FetchSucceededStep == FetchSettledStep /\ ~RespFailed(lastSettled'.resp)

AllowedNames == {"Main Page", "Arma Reforger Game API", "Arma Reforger Workshop API"}

\* out is exactly the subsequence of feed made of the allow-listed entries.
IsAllowedSubsequence(out, feed) ==
  \E idx \in [1..Len(out) -> 1..Len(feed)] :
    /\ \A i, j \in 1..Len(out) : i < j => idx[i] < idx[j]
    /\ \A i \in 1..Len(out) : out[i] = feed[idx[i]]
    /\ \A j \in 1..Len(feed) :
         (feed[j].name \in AllowedNames) <=> (\E i \in 1..Len(out) : idx[i] = j)

\* C1: the list stored by a successful primary fetch is exactly the
\* subsequence of the feed whose names are allow-listed, in the feed's
\* order; allow-listed names missing from the feed raise no error.
C1_StoredListIsAllowedSubsequence ==
  [][FetchSucceededStep =>
       /\ IsAllowedSubsequence(services', lastSettled'.resp.data)
       /\ \A i \in 1..Len(services') : services'[i].name \in AllowedNames
       /\ error' = Null]_vars

\* A feed in the reverse of the allow-list's order, without the game API,
\* has been stored as it came.
C1_Witness ==
  /\ lastSettled.resp.body = "array"
  /\ Len(lastSettled.resp.data) = 2
  /\ lastSettled.resp.data[1].name = "Arma Reforger Workshop API"
  /\ lastSettled.resp.data[2].name = "Main Page"
  /\ services = lastSettled.resp.data
  /\ error = Null

\* C2: a primary fetch that settles with any failure sets error to the one
\* fixed message and loading to false.
C2_FailureSetsFixedError ==
  [][FetchFailedStep => error' = ErrorMessage /\ loading' = FALSE]_vars

C2_Witness ==
  /\ lastSettled.resp.body = "badjson"
  /\ error = "Unable to fetch service status. Please try again later."
  /\ loading = FALSE

\* C3: a primary fetch that settles successfully clears error, stamps
\* lastUpdate with the time of settlement, ends loading and replaces the
\* service list by the filtered new feed, keeping nothing else.
C3_SuccessReplacesState ==
  [][FetchSucceededStep =>
       LET data == lastSettled'.resp.data IN
       /\ error' = Null
       /\ lastUpdate' = now'
       /\ loading' = FALSE
       /\ \A i \in 1..Len(services') : \E j \in 1..Len(data) : data[j] = services'[i]
       /\ Len(services') =
            Cardinality({j \in 1..Len(data) : data[j].name \in AllowedNames})]_vars

\* A later fetch has replaced the list, after time has passed.
C3_Witness ==
  /\ lastSettled.id >= 2
  /\ servicesCycle = lastSettled.id
  /\ services = << [name |-> "Main Page", online |-> TRUE] >>
  /\ lastUpdate = now
  /\ now > 0
  /\ error = Null
  /\ loading = FALSE

\* C4: a primary fetch that settles with a failure leaves the service list
\* and lastUpdate (and the probe result) as they were.
C4_FailureKeepsListAndLastUpdate ==
  [][FetchFailedStep =>
       UNCHANGED <<services, lastUpdate, workshopStatus>>]_vars

\* A failure after a success: the earlier list is still stored.
C4_Witness ==
  /\ RespFailed(lastSettled.resp)
  /\ lastSettled.id >= 2
  /\ error = ErrorMessage
  /\ servicesCycle >= 1
  /\ services # <<>>
  /\ lastUpdate < now

\* C5: no outcome of the probe changes error, loading, lastUpdate or the
\* service list, and no outcome of the primary fetch changes the probe
\* result.
C5_FetchAndProbeIndependent ==
  [][/\ ProbeSettledStep => UNCHANGED <<error, loading, lastUpdate, services>>
     /\ FetchSettledStep => UNCHANGED workshopStatus]_vars

\* A probe has come back offline while the content view shows services.
C5_Witness ==
  /\ probeCycle >= 1
  /\ workshopStatus = [online |-> FALSE, latency |-> 0]
  /\ probes = {}
  /\ error = Null
  /\ view = "content"
  /\ services # <<>>

\* C6: every step that starts a primary fetch also starts a probe.
C6_FetchStartsWithProbe ==
  [][FetchStartedStep => ProbeStartedStep]_vars

\* C7 (as stated): loading is true as long as any primary fetch is in
\* flight, whatever started it.
C7_LoadingWhileAnyFetchInFlight ==
  fetches # {} => loading = TRUE

\* The fetches started in this step that have the given origins.
StartedWith(origins) ==
  \E f \in fetches' : f \notin fetches /\ f.origin \in origins

\* C7 (amended): loading is true at startup; the initial load and each
\* manual trigger start their fetch with loading true; a timer tick starts
\* its fetch without touching loading; loading turns false exactly when
\* some primary fetch settles, whichever it is.
C7_LoadingSetByManualNotByTimer ==
  /\ [](phase = "init" => loading = TRUE)
  /\ [][/\ StartedWith({"initial", "retry", "refresh"}) => loading' = TRUE
        /\ StartedWith({"timer"}) => loading' = loading
        /\ FetchSettledStep => loading' = FALSE
        /\ (loading = TRUE /\ loading' = FALSE) => FetchSettledStep]_vars

\* A timer-started fetch is in flight while the content view, not the
\* loading view, is on screen.
C7_Witness ==
  /\ \E f \in fetches : f.origin = "timer"
  /\ loading = FALSE
  /\ view = "content"

\* C8: whenever the content view is shown, the service list (with
\* lastUpdate) and the probe result were written by the same refresh
\* cycle (the values from before the first cycle set aside).
C8_SnapshotFromOneCycle ==
  (view = "content" /\ servicesCycle >= 1 /\ probeCycle >= 1)
    => servicesCycle = probeCycle

\* C9 (as stated): each terminal state of a primary fetch schedules the
\* next timer-driven refresh 60 seconds after itself.
C9_NextRefreshSixtySecondsAfterSettle ==
  [][(FetchSettledStep /\ phase = "mounted") => nextTick' = now' + Interval]_vars

\* C9 (amended): the interval is set once at mount and fires every 60
\* seconds counted from mount; a settling fetch does not move it, so the
\* next timer-driven refresh is due at most (not exactly) 60 seconds
\* after a terminal state, and each firing starts a primary fetch.
C9_IntervalFixedAtMount ==
  /\ [](phase = "mounted" =>
          /\ now <= nextTick
          /\ nextTick - now <= Interval
          /\ nextTick % Interval = 0)
  /\ [][/\ FetchSettledStep => nextTick' = nextTick
        /\ (phase = "mounted" /\ nextTick' # nextTick) =>
             /\ now = nextTick
             /\ nextTick' = nextTick + Interval
             /\ StartedWith({"timer"})]_vars

\* A fetch settled half-way through the interval, and the timer has since
\* started the next one at the 60 second mark.
C9_Witness ==
  /\ phase = "mounted"
  /\ lastSettled.id = 1
  /\ servicesCycle = 1
  /\ 0 < lastUpdate /\ lastUpdate < Interval
  /\ now = Interval
  /\ nextTick = 2 * Interval
  /\ \E f \in fetches : f.origin = "timer"

\* C10: the view on screen is the loading view if loading, else the error
\* view if error is set, else the content view; the stored service list
\* is never on screen together with an error.
C10_ViewSelection ==
  phase # "unmounted" =>
    /\ loading = TRUE => view = "loading"
    /\ (loading = FALSE /\ error # Null) => view = "error"
    /\ (loading = FALSE /\ error = Null) => view = "content"
    /\ view = "content" => (loading = FALSE /\ error = Null)

\* The error view is on screen while an earlier list is still stored.
C10_Witness ==
  /\ view = "error"
  /\ error = ErrorMessage
  /\ services # <<>>
  /\ phase = "mounted"
\* ------------------------------------------------ claims on the formatters
\* The elapsed ms seen by the last call's formatting / freshness reading.
Elapsed == call.at - call.arg
FlagElapsed == call.flagAt - call.arg

\* C11: formatTimeAgo buckets the whole elapsed seconds: under 5 "Just
\* now", under 60 "s seconds ago", under 3600 "m minute(s) ago", under
\* 86400 "h hour(s) ago", else an absolute date; singular exactly for 1;
\* with the listed boundary values.
C11_RelativeTimeBuckets ==
  call.fn = "UpdatedTimestamp" =>
    /\ Elapsed < 5000 => call.out = "Just now"
    /\ (5000 <= Elapsed /\ Elapsed < 60000) =>
         call.out = ToString(Elapsed \div 1000) \o " seconds ago"
    /\ (60000 <= Elapsed /\ Elapsed < 3600000) =>
         call.out = ToString(Elapsed \div 60000) \o
                    (IF Elapsed < 120000 THEN " minute ago" ELSE " minutes ago")
    /\ (3600000 <= Elapsed /\ Elapsed < 86400000) =>
         call.out = ToString(Elapsed \div 3600000) \o
                    (IF Elapsed < 7200000 THEN " hour ago" ELSE " hours ago")
    /\ Elapsed >= 86400000 => call.out = toLocaleString(TRUE, call.arg)
    /\ Elapsed \in 4000..4999 => call.out = "Just now"
    /\ Elapsed \in 5000..5999 => call.out = "5 seconds ago"
    /\ Elapsed \in 59000..59999 => call.out = "59 seconds ago"
    /\ Elapsed \in 60000..60999 => call.out = "1 minute ago"
    /\ Elapsed \in 3599000..3599999 => call.out = "59 minutes ago"
    /\ Elapsed \in 3600000..3600999 => call.out = "1 hour ago"

C11_Witness ==
  /\ call.fn = "UpdatedTimestamp"
  /\ Elapsed = 3599999
  /\ call.out = "59 minutes ago"

\* C12: isRecent is true for every elapsed time under 5 seconds and false
\* at exactly 5000 ms and beyond.
C12_FreshUnderFiveSeconds ==
  call.fn = "UpdatedTimestamp" =>
    /\ FlagElapsed <= 4999 => call.flag = TRUE
    /\ FlagElapsed = 5000 => call.flag = FALSE
    /\ FlagElapsed > 5000 => call.flag = FALSE

C12_Witness ==
  /\ call.fn = "UpdatedTimestamp"
  /\ FlagElapsed = 5000
  /\ call.flag = FALSE

\* C13 (as stated): two successive calls of the same formatter with the
\* same argument return the same value.
C13_SameArgumentSameResult ==
  [][(call.fn # "none" /\ call'.fn = call.fn /\ call'.arg = call.arg
        /\ call'.valid = call.valid)
       => (call'.out = call.out /\ call'.flag = call.flag)]_vars

\* Whole seconds between the argument and a clock reading.
WholeSeconds(c, reading) == (reading - c.arg) \div 1000

\* C13 (amended): formatLatency and percentString return the same value
\* for the same argument; formatTimeAgo, formatDate and isRecent read the
\* clock, and two calls agree when the whole elapsed seconds at their
\* readings agree (below one day), whatever the moments of the calls.
C13_ResultDependsOnElapsedTime ==
  [][(call.fn # "none" /\ call'.fn = call.fn) =>
       /\ (call.fn \in {"formatLatency", "percentString"} /\ call'.arg = call.arg)
            => call'.out = call.out
       /\ (call.fn \in {"UpdatedTimestamp", "formatDate"}
             /\ call.valid /\ call'.valid
             /\ WholeSeconds(call', call'.at) = WholeSeconds(call, call.at)
             /\ WholeSeconds(call, call.at) < 86400)
            => call'.out = call.out
       /\ (call.fn = "UpdatedTimestamp"
             /\ WholeSeconds(call', call'.flagAt) = WholeSeconds(call, call.flagAt))
            => call'.flag = call.flag]_vars

\* A timestamp formatted about a minute after it was taken.
C13_Witness ==
  /\ call.fn = "UpdatedTimestamp"
  /\ call.arg = 2001
  /\ Elapsed = 59998
  /\ call.out = "59 seconds ago"

\* C14: formatDate buckets the whole elapsed seconds: under 60 "Just now",
\* under 3600 "m m ago", under 86400 "h h ago", else an absolute date;
\* 59, 60, 3599, 3600, 86399 and 86400 fall where the inequalities say.
C14_CompactRelativeTimeBuckets ==
  (call.fn = "formatDate" /\ call.valid) =>
    /\ Elapsed < 60000 => call.out = "Just now"
    /\ (60000 <= Elapsed /\ Elapsed < 3600000) =>
         call.out = ToString(Elapsed \div 60000) \o "m ago"
    /\ (3600000 <= Elapsed /\ Elapsed < 86400000) =>
         call.out = ToString(Elapsed \div 3600000) \o "h ago"
    /\ Elapsed >= 86400000 => call.out = toLocaleString(TRUE, call.arg)
    /\ Elapsed \in 59000..59999 => call.out = "Just now"
    /\ Elapsed \in 60000..60999 => call.out = "1m ago"
    /\ Elapsed \in 3599000..3599999 => call.out = "59m ago"
    /\ Elapsed \in 3600000..3600999 => call.out = "1h ago"
    /\ Elapsed \in 86399000..86399999 => call.out = "23h ago"
    /\ Elapsed \in 86400000..86400999 => call.out = "date " \o ToString(call.arg)

C14_Witness ==
  /\ call.fn = "formatDate"
  /\ call.valid
  /\ Elapsed = 86399999
  /\ call.out = "23h ago"

\* ------------------------------------------------- claims on the scheduler
\* C15: a probe writes {online: true, latency: elapsed} on a success
\* status, {online: false, latency: elapsed} on a non-success status and
\* {online: false, latency: 0} when the request throws; the latency is
\* never negative, the result is replaced whole, and it is
\* {online: false, latency: 0} before any probe settles.
C15_ProbeResult ==
  /\ [](probeCycle = 0 => workshopStatus = [online |-> FALSE, latency |-> 0])
  /\ [](workshopStatus.latency >= 0)
  /\ [][ProbeSettledStep =>
         \E p \in probes :
           /\ p \notin probes'
           /\ lastProbe'.id = p.id
           /\ lastProbe'.resp = "status200" =>
                workshopStatus' = [online |-> TRUE, latency |-> now' - p.startTime]
           /\ lastProbe'.resp = "status500" =>
                workshopStatus' = [online |-> FALSE, latency |-> now' - p.startTime]
           /\ lastProbe'.resp = "rejected" =>
                workshopStatus' = [online |-> FALSE, latency |-> 0]]_vars

\* A probe answered with a non-success status after some time.
C15_Witness ==
  /\ lastProbe.resp = "status500"
  /\ workshopStatus.online = FALSE
  /\ workshopStatus.latency > 0

\* C16: a manual trigger is available in the error view and in the content
\* view at any phase of the timer, also while other fetches are in flight;
\* it sets loading and starts one primary fetch in the same step (Retry
\* also clears error) and leaves the timer alone; when a manually started
\* fetch succeeds, error is null and lastUpdate is the time of success.
C16_ManualTriggerImmediate ==
  /\ []((phase = "mounted" /\ nextId <= MaxFetches) =>
          /\ view = "error" => ENABLED Retry
          /\ view = "content" => ENABLED RefreshNow)
  /\ [][/\ StartedWith({"retry", "refresh"}) =>
             /\ loading' = TRUE
             /\ view' = "loading"
             /\ Cardinality(fetches') = Cardinality(fetches) + 1
             /\ UNCHANGED <<nextTick, now, phase>>
        /\ StartedWith({"retry"}) => (view = "error" /\ error' = Null)
        /\ StartedWith({"refresh"}) => (view = "content" /\ error' = Null)
        /\ (FetchSucceededStep /\ \E f \in fetches :
                f \notin fetches' /\ f.origin \in {"retry", "refresh"})
             => (error' = Null /\ lastUpdate' = now')]_vars

\* Between two timer firings, with the timer-started fetch still in
\* flight, "Refresh now" has started another fetch and the loading view is up.
C16_Witness ==
  /\ \E f \in fetches : f.origin = "timer"
  /\ \E f \in fetches : f.origin = "refresh"
  /\ loading = TRUE
  /\ view = "loading"
  /\ Interval < now
  /\ now < nextTick

\* C17: after teardown the timer starts no primary fetch and no probe (and
\* nothing else does); requests started before may still settle, and
\* their writes are applied as before.
C17_TeardownStopsTimerOnly ==
  [][phase = "unmounted" =>
       /\ ~FetchStartedStep
       /\ ~ProbeStartedStep
       /\ UNCHANGED <<phase, nextTick, nextId>>
       /\ FetchSucceededStep =>
            (lastUpdate' = now' /\ servicesCycle' = lastSettled'.id /\ loading' = FALSE)
       /\ FetchFailedStep => (error' = ErrorMessage /\ loading' = FALSE)
       /\ ProbeSettledStep => probeCycle' = lastProbe'.id]_vars

\* After teardown the clock has passed the time the cleared timer was due
\* at, only the initial fetch was ever started, and it has just succeeded.
C17_Witness ==
  /\ phase = "unmounted"
  /\ now > nextTick
  /\ nextId = 2
  /\ servicesCycle = 1
  /\ lastUpdate = now
  /\ loading = FALSE

\* C18: a response of an earlier-started fetch never overwrites the
\* result of a later-started one: the stored list never goes back to the
\* feed of a fetch started before the one it came from, and an
\* earlier-started failure does not raise the error over a later success.
C18_LaterStartedFetchWins ==
  [][/\ FetchSucceededStep => servicesCycle' >= servicesCycle
     /\ FetchFailedStep => lastSettled'.id >= servicesCycle]_vars

\* C19: once the initial load has started, loading = true implies that a
\* primary fetch is in flight.
C19_LoadingHasFetchPending ==
  (phase # "init" /\ loading = TRUE) => fetches # {}

\* The loading view is up again after a failure and a retry.
C19_Witness ==
  /\ loading = TRUE
  /\ view = "loading"
  /\ RespFailed(lastSettled.resp)
  /\ lastSettled.id >= 1
  /\ \E f \in fetches : f.origin = "retry"

\* C20: if every primary fetch in flight settles in the end, loading =
\* true leads to loading = false.
C20_LoadingEnds ==
  (loading = TRUE) ~> (loading = FALSE)

\* A manually started fetch (the second one, before the first timer
\* firing) has settled and the loading view is gone.
C20_Witness ==
  /\ phase = "mounted"
  /\ lastSettled.id = 2
  /\ now < Interval
  /\ loading = FALSE
  /\ view \in {"error", "content"}
  /\ fetches = {}

====
